---------------------------- MODULE Spec2Model ----------------------------
(***************************************************************************)
(* A model of src/mdf42adx/PrepareMDF4FileForADX.py: the export of MDF-4   *)
(* recordings to a parquet dataset or to gzipped CSV files, followed by a  *)
(* JSON metadata file.                                                     *)
(*                                                                         *)
(* Three specifications share the module:                                  *)
(*   Spec        the program from __main__ down to the per-signal tasks    *)
(*               (processDirectory, processFile, writeParquet and its      *)
(*               worker pool, writeCsv, dumpSignals, writeMetadata);       *)
(*   SpecSource  getSource applied to a channel-group table;               *)
(*   SpecCsv     extractSignalsByType and the row loop of processSignalCSV *)
(*               on one signal.                                            *)
(***************************************************************************)
EXTENDS Integers, Sequences, FiniteSets

(***************************************************************************)
(* Bounds of the model.                                                    *)
(***************************************************************************)
MaxFiles == 2
MaxSignals == 2
MaxCpus == 2
MaxGroups == 2
MaxSamples == 2

VARIABLES
    \* ---- the program (Spec)
    args,            \* the parsed command line: main, dump, exportFormat
    cpu_count,       \* mp.cpu_count() of the host: the size of the pool
    listing,         \* os.listdir(directory), or the one --file path
    di,              \* position of processDirectory's loop in the listing
    pc,              \* where the main process is
    mdf,             \* the signals of the open recording
    file_uuid,       \* number of uuid4 values minted; the current run id
    i,               \* signals enumerated so far by the export loop
    counter,         \* the loop variable `counter`: <<>> while unbound
    result,          \* writeParquet's list of AsyncResults (task numbers)
    w,               \* position of the `for r in result: r.wait()` loop
    task,            \* status of each signal's task
    numberOfChunks,  \* processFile's local
    metadataFiles,   \* the metadata files written, in order
    csvOpens,        \* the gzip.open(..., 'wt') calls made, in order
    partitions,      \* the tables written by pq.write_to_dataset
    \* ---- getSource (SpecSource)
    groups,          \* mdf.groups
    group_index,     \* signal.group_index
    spc,             \* "call" before getSource, "ret" after
    ret,             \* what getSource returned
    \* ---- extractSignalsByType and processSignalCSV (SpecCsv)
    signal,          \* the signal: dtype, samples, timestamps
    rpc,             \* where processSignalCSV is
    numericSignals,
    stringSignals,
    indx,
    numericValue,
    csvFile          \* the rows handed to writer.writerow, in order

progVars == <<args, cpu_count, listing, di, pc, mdf, file_uuid, i, counter, result, w,
              task, numberOfChunks, metadataFiles, csvOpens, partitions>>
srcVars == <<groups, group_index, spc, ret>>
csvVars == <<signal, rpc, numericSignals, stringSignals, indx, numericValue,
             csvFile>>
vars == <<progVars, srcVars, csvVars>>
\* What the program leaves alone: the state of the other two specifications.
nonProg == <<srcVars, csvVars>>

(***************************************************************************)
(* Sequences over S of length at most n.                                   *)
(***************************************************************************)
SeqUpTo(S, n) == UNION {[1..k -> S] : k \in 0..n}


(***************************************************************************)
(* The program's inputs.                                                   *)
(*   A listing entry is a sub-directory ("dir"), a file MDF() cannot parse *)
(*   ("corrupt") or a recording ("mdf").                                   *)
(*   A signal of a recording is known here by what happens when it is      *)
(*   exported: nothing goes wrong ("none"), extractSignalsByType raises    *)
(*   ("classify"), or the write of its table or rows raises ("write").     *)
(***************************************************************************)
EntryKinds == {"dir", "corrupt", "mdf"}
Faults == {"none", "classify", "write"}
Recordings == SeqUpTo(Faults, MaxSignals)
ExportFormats == {"parquet", "csv", "other"}
ArgSets == [main : {"file", "directory"}, dump : BOOLEAN,
            exportFormat : ExportFormats]

(***************************************************************************)
(* Text: a string is a sequence of tokens, str(n) the decimal digits of n. *)
(***************************************************************************)
Digit(d) == CASE d = 0 -> "0" [] d = 1 -> "1" [] d = 2 -> "2" [] d = 3 -> "3"
              [] d = 4 -> "4" [] d = 5 -> "5" [] d = 6 -> "6" [] d = 7 -> "7"
              [] d = 8 -> "8" [] d = 9 -> "9"

RECURSIVE Decimal(_)
Decimal(n) == IF n < 10 THEN <<Digit(n)>>
              ELSE Decimal(n \div 10) \o <<Digit(n % 10)>>

\* str(uuid) of the n-th uuid4 minted: distinct runs get distinct ids.
UuidStr(u) == <<"uuid#">> \o Decimal(u)

\* os.path.join(target, f"{basename}-{uuid}"); the basename is the stem of
\* the listing entry, known here by its position.
TargetDir(basename, u) ==
    <<"target", "/", "file#">> \o Decimal(basename) \o <<"-">> \o UuidStr(u)

\* A faulty variant of CsvFileName: the per-signal sequence number left out.
CsvFileNameNoCounter(u, c) == UuidStr(u) \o <<".csv.gz">>

\* f"{uuid}-{counter}.csv.gz"
CsvFileName(u, c) == UuidStr(u) \o <<"-">> \o Decimal(c) \o <<".csv.gz">>

(***************************************************************************)
(* Init of the program.                                                    *)
(***************************************************************************)
NoTasks == [t \in {} |-> "none"]

InitProg ==
    /\ args \in ArgSets
    /\ cpu_count \in 1..MaxCpus
    /\ listing \in SeqUpTo(EntryKinds, MaxFiles)
    /\ args.main = "file" => Len(listing) = 1
    /\ di = 0
    /\ pc = "main"
    /\ mdf = <<>>
    /\ file_uuid = 0
    /\ i = 0
    /\ counter = <<>>
    /\ result = <<>>
    /\ w = 1
    /\ task = NoTasks
    /\ numberOfChunks = 0
    /\ metadataFiles = <<>>
    /\ csvOpens = <<>>
    /\ partitions = {}

IdleSrc ==
    /\ groups = <<>>
    /\ group_index = 0
    /\ spc = "idle"
    /\ ret = <<"", "", "">>

IdleCsv ==
    /\ signal = [dtype |-> "float64", samples |-> <<>>, timestamps |-> <<>>]
    /\ rpc = "idle"
    /\ numericSignals = <<>>
    /\ stringSignals = <<>>
    /\ indx = 0
    /\ numericValue = <<>>
    /\ csvFile = <<>>

(***************************************************************************)
(* An exception leaves processFile: every raising site goes to "unwinding".*)
(***************************************************************************)
Raise == pc' = "unwinding"

\* A faulty variant of Handler: processDirectory catches and goes on to the next
\* entry.
HandlerSkipFile == IF args.main = "directory" THEN "listdir" ELSE "raised"

\* Neither processDirectory (its loop has no try) nor __main__ handles an
\* exception of processFile: the program ends with it.
Handler == "raised"

Unhandled ==
    /\ pc = "unwinding"
    /\ pc' = Handler
    /\ UNCHANGED <<nonProg, args, cpu_count, listing, di, mdf, file_uuid, i,
                   counter, result, w, task, numberOfChunks, metadataFiles,
                   csvOpens, partitions>>

(***************************************************************************)
(* __main__ and processDirectory.                                          *)
(***************************************************************************)
MainFile ==
    /\ pc = "main"
    /\ args.main = "file"
    /\ di' = 1
    /\ pc' = "processFile"
    /\ UNCHANGED <<nonProg, args, cpu_count, listing, mdf, file_uuid, i,
                   counter, result, w, task, numberOfChunks, metadataFiles,
                   csvOpens, partitions>>

MainDirectory ==
    /\ pc = "main"
    /\ args.main = "directory"
    /\ pc' = "listdir"
    /\ UNCHANGED <<nonProg, args, cpu_count, listing, di, mdf, file_uuid, i,
                   counter, result, w, task, numberOfChunks, metadataFiles,
                   csvOpens, partitions>>

\* One turn of `for path in os.listdir(directoryname)`.
DirNextFile ==
    /\ pc = "listdir"
    /\ di < Len(listing)
    /\ listing[di + 1] # "dir"
    /\ di' = di + 1
    /\ pc' = "processFile"
    /\ UNCHANGED <<nonProg, args, cpu_count, listing, mdf, file_uuid, i,
                   counter, result, w, task, numberOfChunks, metadataFiles,
                   csvOpens, partitions>>

DirSkip ==
    /\ pc = "listdir"
    /\ di < Len(listing)
    /\ listing[di + 1] = "dir"
    /\ di' = di + 1
    /\ UNCHANGED <<nonProg, args, cpu_count, listing, pc, mdf, file_uuid, i,
                   counter, result, w, task, numberOfChunks, metadataFiles,
                   csvOpens, partitions>>

DirEnd ==
    /\ pc = "listdir"
    /\ di = Len(listing)
    /\ pc' = "exit"
    /\ UNCHANGED <<nonProg, args, cpu_count, listing, di, mdf, file_uuid, i,
                   counter, result, w, task, numberOfChunks, metadataFiles,
                   csvOpens, partitions>>

(***************************************************************************)
(* processFile.                                                            *)
(***************************************************************************)
\* mdf = MDF(filename); numberOfChunks = 0
OpenMDF ==
    /\ pc = "processFile"
    /\ listing[di] = "mdf"
    /\ \E sigs \in Recordings :
          /\ mdf' = sigs
          /\ task' = [t \in 1..Len(sigs) |-> "none"]
    /\ i' = 0
    /\ counter' = <<>>
    /\ result' = <<>>
    /\ w' = 1
    /\ numberOfChunks' = 0
    /\ pc' = "opened"
    /\ UNCHANGED <<nonProg, args, cpu_count, listing, di, file_uuid,
                   metadataFiles, csvOpens, partitions>>

\* MDF(filename) raises on a path that is no recording.
OpenFail ==
    /\ pc = "processFile"
    /\ listing[di] # "mdf"
    /\ Raise
    /\ UNCHANGED <<nonProg, args, cpu_count, listing, di, mdf, file_uuid, i,
                   counter, result, w, task, numberOfChunks, metadataFiles,
                   csvOpens, partitions>>

\* The value of `counter` after `for counter, s in enumerate(signals)` over n
\* signals: the last index, and unbound when there was none.
LoopCounter(n) == IF n = 0 THEN <<>> ELSE <<n - 1>>

\* numberOfChunks = dumpSignals(mdf): the loop, then `return counter`.
DumpSignals ==
    /\ pc = "opened"
    /\ args.dump
    /\ counter' = LoopCounter(Len(mdf))
    /\ i' = Len(mdf)
    /\ \/ /\ Len(mdf) = 0
          /\ Raise
          /\ UNCHANGED numberOfChunks
       \/ /\ Len(mdf) > 0
          /\ numberOfChunks' = counter'[1]
          /\ pc' = "fileDone"
    /\ UNCHANGED <<nonProg, args, cpu_count, listing, di, mdf, file_uuid,
                   result, w, task, metadataFiles, csvOpens, partitions>>

\* file_uuid = uuid.uuid4(); then the branch on args.exportFormat.
StartExport ==
    /\ pc = "opened"
    /\ ~args.dump
    /\ file_uuid' = file_uuid + 1
    /\ pc' = CASE args.exportFormat = "parquet" -> "writeParquet"
               [] args.exportFormat = "csv" -> "writeCsv"
               [] OTHER -> "writeMetadata"
    /\ UNCHANGED <<nonProg, args, cpu_count, listing, di, mdf, i, counter,
                   result, w, task, numberOfChunks, metadataFiles, csvOpens,
                   partitions>>


(***************************************************************************)
(* writeParquet: the dispatch loop, the wait loop, `return counter`.       *)
(***************************************************************************)
\* One turn of the enumerate loop: getSource (which never raises), then
\* result.append(pool.apply_async(processSignal, ...)).
ParquetDispatch ==
    /\ pc = "writeParquet"
    /\ i < Len(mdf)
    /\ counter' = <<i>>
    /\ task' = [task EXCEPT ![i + 1] = "queued"]
    /\ result' = Append(result, i + 1)
    /\ i' = i + 1
    /\ UNCHANGED <<nonProg, args, cpu_count, listing, di, pc, mdf, file_uuid,
                   w, numberOfChunks, metadataFiles, csvOpens, partitions>>

ParquetDispatched ==
    /\ pc = "writeParquet"
    /\ i = Len(mdf)
    /\ pc' = "wait"
    /\ w' = 1
    /\ UNCHANGED <<nonProg, args, cpu_count, listing, di, mdf, file_uuid, i,
                   counter, result, task, numberOfChunks, metadataFiles,
                   csvOpens, partitions>>

\* A faulty variant of Ready: the wait returns without waiting.
ReadyAtOnce(t) == TRUE

\* AsyncResult.wait() returns once the task has ended, with its result or
\* with the exception it raised.
Ready(t) == task[t] \in {"ok", "failed"}

\* One turn of `for r in result: r.wait()`.
ParquetWait ==
    /\ pc = "wait"
    /\ w <= Len(result)
    /\ Ready(result[w])
    /\ w' = w + 1
    /\ UNCHANGED <<nonProg, args, cpu_count, listing, di, pc, mdf, file_uuid,
                   i, counter, result, task, numberOfChunks, metadataFiles,
                   csvOpens, partitions>>

\* `return counter`, assigned to numberOfChunks by processFile; with no
\* signal `counter` is unbound and the return raises UnboundLocalError.
ParquetReturn ==
    /\ pc = "wait"
    /\ w > Len(result)
    /\ \/ /\ counter = <<>>
          /\ Raise
          /\ UNCHANGED numberOfChunks
       \/ /\ counter # <<>>
          /\ numberOfChunks' = counter[1]
          /\ pc' = "writeMetadata"
    /\ UNCHANGED <<nonProg, args, cpu_count, listing, di, mdf, file_uuid, i,
                   counter, result, w, task, metadataFiles, csvOpens,
                   partitions>>

(***************************************************************************)
(* The pool: mp.cpu_count() worker processes take the queued tasks in the  *)
(* order of their dispatch and run processSignal.                          *)
(***************************************************************************)
Running == {t \in DOMAIN task : task[t] \in {"running", "classified"}}

TaskStart(t) ==
    /\ task[t] = "queued"
    /\ \A u \in DOMAIN task : u < t => task[u] # "queued"
    /\ Cardinality(Running) < cpu_count
    /\ task' = [task EXCEPT ![t] = "running"]
    /\ UNCHANGED <<nonProg, args, cpu_count, listing, di, pc, mdf, file_uuid,
                   i, counter, result, w, numberOfChunks, metadataFiles,
                   csvOpens, partitions>>

\* processSignal, first half of its try block: extractSignalsByType. An
\* exception is caught by `except Exception` and the task ends.
TaskClassify(t) ==
    /\ task[t] = "running"
    /\ task' = [task EXCEPT
                  ![t] = IF mdf[t] = "classify" THEN "failed" ELSE "classified"]
    /\ UNCHANGED <<nonProg, args, cpu_count, listing, di, pc, mdf, file_uuid,
                   i, counter, result, w, numberOfChunks, metadataFiles,
                   csvOpens, partitions>>

\* processSignal, second half: pa.table and pq.write_to_dataset.
TaskWrite(t) ==
    /\ task[t] = "classified"
    /\ \/ /\ mdf[t] = "write"
          /\ task' = [task EXCEPT ![t] = "failed"]
          /\ UNCHANGED partitions
       \/ /\ mdf[t] # "write"
          /\ task' = [task EXCEPT ![t] = "ok"]
          /\ partitions' = partitions \cup
                {[rec |-> di, dir |-> TargetDir(di, file_uuid),
                  counter |-> t - 1]}
    /\ UNCHANGED <<nonProg, args, cpu_count, listing, di, pc, mdf, file_uuid,
                   i, counter, result, w, numberOfChunks, metadataFiles,
                   csvOpens>>

(***************************************************************************)
(* writeCsv: processSignalCSV is called in the loop, in process.           *)
(***************************************************************************)
CsvOpen(c, complete) ==
    [rec |-> di, uuid |-> file_uuid, counter |-> c,
     dir |-> TargetDir(di, file_uuid), name |-> CsvFileName(file_uuid, c),
     complete |-> complete]

\* One turn of the enumerate loop: getSource, then processSignalCSV, which
\* has no try around extractSignalsByType or around the writes.
CsvSignal ==
    /\ pc = "writeCsv"
    /\ i < Len(mdf)
    /\ counter' = <<i>>
    /\ \/ /\ mdf[i + 1] = "none"
          /\ csvOpens' = Append(csvOpens, CsvOpen(i, TRUE))
          /\ task' = [task EXCEPT ![i + 1] = "ok"]
          /\ i' = i + 1
          /\ UNCHANGED pc
       \/ /\ mdf[i + 1] = "classify"
          /\ task' = [task EXCEPT ![i + 1] = "raised"]
          /\ Raise
          /\ UNCHANGED <<csvOpens, i>>
       \/ /\ mdf[i + 1] = "write"
          /\ csvOpens' = Append(csvOpens, CsvOpen(i, FALSE))
          /\ task' = [task EXCEPT ![i + 1] = "raised"]
          /\ Raise
          /\ UNCHANGED i
    /\ UNCHANGED <<nonProg, args, cpu_count, listing, di, mdf, file_uuid,
                   result, w, numberOfChunks, metadataFiles, partitions>>

CsvReturn ==
    /\ pc = "writeCsv"
    /\ i = Len(mdf)
    /\ \/ /\ counter = <<>>
          /\ Raise
          /\ UNCHANGED numberOfChunks
       \/ /\ counter # <<>>
          /\ numberOfChunks' = counter[1]
          /\ pc' = "writeMetadata"
    /\ UNCHANGED <<nonProg, args, cpu_count, listing, di, mdf, file_uuid, i,
                   counter, result, w, task, metadataFiles, csvOpens,
                   partitions>>

(***************************************************************************)
(* writeMetadata and the end of processFile.                               *)
(***************************************************************************)
\* The metadata file: one descriptor per signal of mdf.iter_channels() and
\* the numberOfChunks it was handed.
WriteMetadata ==
    /\ pc = "writeMetadata"
    /\ metadataFiles' = Append(metadataFiles,
          [rec |-> di, source_uuid |-> UuidStr(file_uuid),
           signals |-> Len(mdf), numberOfChunks |-> numberOfChunks])
    /\ pc' = "fileDone"
    /\ UNCHANGED <<nonProg, args, cpu_count, listing, di, mdf, file_uuid, i,
                   counter, result, w, task, numberOfChunks, csvOpens,
                   partitions>>

\* processFile returns: to processDirectory's loop, or to the end of __main__.
ProcessFileReturn ==
    /\ pc = "fileDone"
    /\ pc' = IF args.main = "directory" THEN "listdir" ELSE "exit"
    /\ UNCHANGED <<nonProg, args, cpu_count, listing, di, mdf, file_uuid, i,
                   counter, result, w, task, numberOfChunks, metadataFiles,
                   csvOpens, partitions>>

NextProg ==
    \/ MainFile
    \/ MainDirectory
    \/ DirNextFile
    \/ DirSkip
    \/ DirEnd
    \/ OpenMDF
    \/ OpenFail
    \/ DumpSignals
    \/ StartExport
    \/ ParquetDispatch
    \/ ParquetDispatched
    \/ ParquetWait
    \/ ParquetReturn
    \/ \E t \in DOMAIN task : TaskStart(t)
    \/ \E t \in DOMAIN task : TaskClassify(t)
    \/ \E t \in DOMAIN task : TaskWrite(t)
    \/ CsvSignal
    \/ CsvReturn
    \/ WriteMetadata
    \/ ProcessFileReturn
    \/ Unhandled

Init == InitProg /\ IdleSrc /\ IdleCsv

Next == NextProg

Spec == Init /\ [][Next]_vars


(***************************************************************************)
(* Properties of the program (Spec).                                       *)
(***************************************************************************)
IsPrefix(s, t) == Len(s) <= Len(t) /\ SubSeq(t, 1, Len(s)) = s

IsInfix(s, t) ==
    \E k \in 0..(Len(t) - Len(s)) : SubSeq(t, k + 1, k + Len(s)) = s

ExportModes == {"parquet", "csv"}

\* processFile has a recording open.
InFile ==
    /\ pc \in {"opened", "writeParquet", "wait", "writeCsv", "writeMetadata",
               "fileDone", "unwinding", "raised"}
    /\ listing[di] = "mdf"

\* The export step of the open recording has ended: it returned, or an
\* exception left it.
ExportOver ==
    /\ InFile
    /\ ~args.dump
    /\ args.exportFormat \in ExportModes
    /\ pc \in {"writeMetadata", "fileDone", "unwinding", "raised"}

Completed == {"ok", "failed"}
Incomplete == {"queued", "running", "classified"}

ManifestsOf(r) == {k \in DOMAIN metadataFiles : metadataFiles[k].rec = r}

\* C1: with dump-only disabled, in columnar or row mode, the count the export
\* step returns, which is written as numberOfChunks into the manifest, is N,
\* the number of signals of the recording.
C1_ChunksEqualSignalCount ==
    /\ (InFile /\ ~args.dump /\ args.exportFormat \in ExportModes
          /\ pc = "writeMetadata")
       => numberOfChunks = Len(mdf)
    /\ args.exportFormat \in ExportModes
       => \A k \in DOMAIN metadataFiles :
             metadataFiles[k].numberOfChunks = metadataFiles[k].signals

\* C2: in both export modes a signal whose classification or write throws is
\* caught at its own task (no exception leaves the task), and every other
\* signal's task is still run to completion.
C2_FailureIsolated ==
    ExportOver =>
       \A t \in DOMAIN task :
          /\ task[t] # "raised"
          /\ \A u \in DOMAIN task \ {t} : task[u] \in Completed

\* C3: for a recording processed with dump-only disabled, processFile has
\* written the manifest exactly once when it ends, also when a signal threw
\* during the export. (Stated for the recordings that have a signal.)
C3_ManifestExactlyOnce ==
    /\ (InFile /\ ~args.dump /\ Len(mdf) > 0
          /\ pc \in {"fileDone", "unwinding", "raised"})
       => Cardinality(ManifestsOf(di)) = 1
    /\ \A r \in 1..Len(listing) : Cardinality(ManifestsOf(r)) <= 1

\* C4: in columnar mode writeParquet has not returned, and writeMetadata
\* has not started, while a dispatched task is incomplete: outside
\* writeParquet no task is queued or running, and once writeParquet has
\* returned every signal's task has ended, with success or a caught failure.
C4_BarrierBeforeManifest ==
    (~args.dump /\ args.exportFormat = "parquet") =>
       /\ pc \notin {"writeParquet", "wait"}
          => \A t \in DOMAIN task : task[t] \notin Incomplete
       /\ (InFile /\ pc \in {"writeMetadata", "fileDone"})
          => \A t \in 1..Len(mdf) : task[t] \in Completed
       /\ \A k \in DOMAIN metadataFiles :
             metadataFiles[k].rec = di
             => \A t \in 1..Len(mdf) : task[t] \in Completed

\* C4's case: the manifest is about to be written for a recording of several
\* signals, of which one failed in its task and one was written.
C4_Witness ==
    /\ pc = "writeMetadata"
    /\ ~args.dump
    /\ args.exportFormat = "parquet"
    /\ \E t, u \in DOMAIN task : task[t] = "failed" /\ task[u] = "ok"
    /\ \E p \in partitions : p.rec = di

\* C7: in row mode the file of the signal at index i has a name holding the
\* run id and i, and no two opens of one recording name the same file.
C7_CsvNamesDisjoint ==
    /\ \A a \in DOMAIN csvOpens :
          /\ IsInfix(UuidStr(csvOpens[a].uuid), csvOpens[a].name)
          /\ IsInfix(Decimal(csvOpens[a].counter), csvOpens[a].name)
    /\ \A a, b \in DOMAIN csvOpens :
          (a # b /\ csvOpens[a].rec = csvOpens[b].rec)
          => <<csvOpens[a].dir, csvOpens[a].name>>
               # <<csvOpens[b].dir, csvOpens[b].name>>

\* C7's case: two signals of one recording have been written in row mode.
C7_Witness ==
    \E a, b \in DOMAIN csvOpens :
       /\ a # b
       /\ csvOpens[a].rec = csvOpens[b].rec
       /\ csvOpens[a].counter # csvOpens[b].counter

Artifacts ==
    {metadataFiles[k].rec : k \in DOMAIN metadataFiles}
       \cup {csvOpens[k].rec : k \in DOMAIN csvOpens}
       \cup {p.rec : p \in partitions}

\* C10: in directory mode an exception of processFile on entry k leaves
\* processDirectory and ends the program: nothing is written for k from then
\* on, no entry after k is ever processed, nothing is ever written for an
\* entry the loop has not reached, and what was written before stays.
C10_BatchHaltsOnFirstFailure ==
    /\ [](args.main = "directory" => \A r \in Artifacts : r <= di)
    /\ [][(args.main = "directory" /\ pc = "unwinding")
            => /\ pc' = "raised"
               /\ UNCHANGED <<di, metadataFiles, csvOpens, partitions>>]_vars
    /\ [][args.main = "directory" => pc # "raised"]_vars
    /\ [][/\ IsPrefix(metadataFiles, metadataFiles')
          /\ IsPrefix(csvOpens, csvOpens')
          /\ partitions \subseteq partitions']_vars

\* C10's case: the program has ended with the exception of an unreadable
\* entry, a recording after it is left unprocessed, and so is its manifest.
C10_Witness ==
    /\ args.main = "directory"
    /\ pc = "raised"
    /\ di < Len(listing)
    /\ listing[di] = "corrupt"
    /\ listing[di + 1] = "mdf"
    /\ ~args.dump


(***************************************************************************)
(* The program at rest, for the two specifications of single functions.    *)
(***************************************************************************)
IdleProg ==
    /\ args = [main |-> "file", dump |-> FALSE, exportFormat |-> "csv"]
    /\ cpu_count = 1
    /\ listing = <<>>
    /\ di = 0
    /\ pc = "idle"
    /\ mdf = <<>>
    /\ file_uuid = 0
    /\ i = 0
    /\ counter = <<>>
    /\ result = <<>>
    /\ w = 1
    /\ task = NoTasks
    /\ numberOfChunks = 0
    /\ metadataFiles = <<>>
    /\ csvOpens = <<>>
    /\ partitions = {}

(***************************************************************************)
(* getSource (SpecSource).                                                 *)
(*                                                                         *)
(* An attribute that may be missing is a sequence: <<>> when reading it    *)
(* raises, <<v>> when it yields v. A channel group has acq_name and        *)
(* acq_source; acq_source is <<>> when it is None or missing (reading      *)
(* .name or .path of it raises), else an object with name and path.        *)
(***************************************************************************)
Opt(S) == {<<>>} \cup {<<v>> : v \in S}

SourceObjects == [name : Opt({"ECU1"}), path : Opt({"CAN1"})]
ChannelGroups == [acq_name : Opt({"FrameA", "FrameB"}),
                  acq_source : Opt(SourceObjects)]

\* mdf.groups[group_index].channel_group: IndexError past the table's end.
ChannelGroupAt(gs, gi) == IF gi < Len(gs) THEN <<gs[gi + 1]>> ELSE <<>>

\* mdf.groups[signal.group_index].channel_group.acq_name
LookupAcqName(gs, gi) ==
    IF ChannelGroupAt(gs, gi) = <<>> THEN <<>>
    ELSE ChannelGroupAt(gs, gi)[1].acq_name

\* mdf.groups[signal.group_index].channel_group.acq_source
LookupAcqSource(gs, gi) ==
    IF ChannelGroupAt(gs, gi) = <<>> THEN <<>>
    ELSE ChannelGroupAt(gs, gi)[1].acq_source

\* ....acq_source.name
LookupSourceName(gs, gi) ==
    IF LookupAcqSource(gs, gi) = <<>> THEN <<>>
    ELSE LookupAcqSource(gs, gi)[1].name

\* ....acq_source.path
LookupSourcePath(gs, gi) ==
    IF LookupAcqSource(gs, gi) = <<>> THEN <<>>
    ELSE LookupAcqSource(gs, gi)[1].path

\* try: x = <lookup>  except: x = ""
OrEmpty(looked) == IF looked = <<>> THEN "" ELSE looked[1]

\* A faulty variant of getSource: one try around the three lookups, so that the
\* first that raises blanks all three.
getSourceOneTry(gs, gi) ==
    IF \/ LookupAcqName(gs, gi) = <<>>
       \/ LookupSourceName(gs, gi) = <<>>
       \/ LookupSourcePath(gs, gi) = <<>>
    THEN <<"", "", "">>
    ELSE <<LookupAcqName(gs, gi)[1], LookupSourceName(gs, gi)[1],
           LookupSourcePath(gs, gi)[1]>>

\* Three lookups, each in a try of its own.
getSource(gs, gi) ==
    <<OrEmpty(LookupAcqName(gs, gi)), OrEmpty(LookupSourceName(gs, gi)),
      OrEmpty(LookupSourcePath(gs, gi))>>

InitSrc ==
    /\ groups \in SeqUpTo(ChannelGroups, MaxGroups)
    /\ group_index \in 0..MaxGroups
    /\ spc = "call"
    /\ ret = <<"", "", "">>

\* channel_group_acq_name, acq_source_name, acq_source_path =
\*     getSource(mdf, signal)
GetSourceCall ==
    /\ spc = "call"
    /\ ret' = getSource(groups, group_index)
    /\ spc' = "ret"
    /\ UNCHANGED <<progVars, csvVars, groups, group_index>>

\* The callers' loops go on to the next signal of the recording.
NextSignal ==
    /\ spc = "ret"
    /\ \E gi \in 0..MaxGroups : group_index' = gi
    /\ spc' = "call"
    /\ UNCHANGED <<progVars, csvVars, groups, ret>>

InitSource == IdleProg /\ InitSrc /\ IdleCsv

NextSource == GetSourceCall \/ NextSignal

SpecSource == InitSource /\ [][NextSource]_vars

\* C5: getSource returns (it never raises) three fields, each the value
\* looked up when its lookup succeeds and "" when it fails, whatever the
\* other two lookups do; a group index past the table yields ("", "", "").
C5_GetSourceTotalAndIndependent ==
    spc = "ret" =>
       LET present == group_index < Len(groups)
           g == groups[group_index + 1]
           src == g.acq_source[1]
       IN  /\ ret[1] = IF present /\ g.acq_name # <<>>
                       THEN g.acq_name[1] ELSE ""
           /\ ret[2] = IF present /\ g.acq_source # <<>> /\ src.name # <<>>
                       THEN src.name[1] ELSE ""
           /\ ret[3] = IF present /\ g.acq_source # <<>> /\ src.path # <<>>
                       THEN src.path[1] ELSE ""
           /\ ~present => ret = <<"", "", "">>

\* C5's case: getSource has returned for a group whose acquisition name and
\* source path are there and whose source name is missing.
C5_Witness ==
    /\ spc = "ret"
    /\ group_index < Len(groups)
    /\ groups[group_index + 1].acq_name # <<>>
    /\ groups[group_index + 1].acq_source # <<>>
    /\ groups[group_index + 1].acq_source[1].name = <<>>
    /\ groups[group_index + 1].acq_source[1].path # <<>>
    /\ ret = <<groups[group_index + 1].acq_name[1], "", "CAN1">>


(***************************************************************************)
(* extractSignalsByType and processSignalCSV (SpecCsv).                    *)
(*                                                                         *)
(* A value is [t |-> its type, v |-> its text]; a conversion gives the     *)
(* value of the new type.                                                  *)
(***************************************************************************)
DTypes == {"record", "float64", "int64", "str_", "bool_"}

\* numpy's scalar type hierarchy, each type to its base.
NumpyBase(t) ==
    CASE t = "record" -> "void"
      [] t = "void" -> "flexible"
      [] t = "str_" -> "character"
      [] t = "character" -> "flexible"
      [] t = "float64" -> "floating"
      [] t = "floating" -> "inexact"
      [] t = "inexact" -> "number"
      [] t = "int64" -> "signedinteger"
      [] t = "signedinteger" -> "integer"
      [] t = "integer" -> "number"
      [] OTHER -> "generic"

\* np.issubdtype(dtype, base)
RECURSIVE issubdtype(_, _)
issubdtype(t, base) ==
    \/ t = base
    \/ t # "generic" /\ issubdtype(NumpyBase(t), base)

SampleTexts(d) ==
    CASE d = "record" -> {"(1, 2)", "(3, 4)"}
      [] d = "float64" -> {"10.0", "20.5"}
      [] d = "int64" -> {"10", "20"}
      [] d = "str_" -> {"abc", "12"}
      [] d = "bool_" -> {"True", "False"}

Samples(d) == {[t |-> d, v |-> x] : x \in SampleTexts(d)}

\* The text of a number as a 64-bit float.
DoubleText(x) ==
    CASE x = "10" -> "10.0"
      [] x = "20" -> "20.0"
      [] x = "12" -> "12.0"
      [] x = "True" -> "1.0"
      [] x = "False" -> "0.0"
      [] OTHER -> x

\* samples.astype(np.double), one element
AsDouble(x) == [t |-> "float64", v |-> DoubleText(x.v)]

\* np.full(n, dtype=np.double, fill_value=0), one element
Zero == [t |-> "float64", v |-> "0.0"]

\* samples.astype(str), one element
AsStr(x) == [t |-> "str_", v |-> x.v]

\* record.pprint()
PPrint(x) ==
    [t |-> "str", v |-> IF x.v = "(1, 2)" THEN "a: 1, b: 2" ELSE "a: 3, b: 4"]

EmptyStr == [t |-> "str_", v |-> ""]

\* np.empty(n, dtype=str) allocates n one-character strings and does not
\* initialise them: an element is whatever the memory held, the empty string
\* or some character.
Uninitialised == {EmptyStr, [t |-> "str_", v |-> "?"]}

\* float(sample): <<>> when it raises (a record, a text that is no number).
Float(x) ==
    CASE x.t = "record" -> <<>>
      [] x.t = "str_" /\ x.v = "abc" -> <<>>
      [] OTHER -> <<[t |-> "float", v |-> DoubleText(x.v)]>>

\* extractSignalsByType(signal); mem is what np.empty returned.
extractSignalsByType(sig, mem) ==
    IF issubdtype(sig.dtype, "record")
    THEN <<[k \in 1..Len(sig.timestamps) |-> Zero],
           [k \in 1..Len(sig.samples) |-> PPrint(sig.samples[k])]>>
    ELSE IF issubdtype(sig.dtype, "number")
    THEN <<[k \in 1..Len(sig.samples) |-> AsDouble(sig.samples[k])], mem>>
    ELSE <<[k \in 1..Len(sig.timestamps) |-> Zero],
           [k \in 1..Len(sig.samples) |-> AsStr(sig.samples[k])]>>

Header ==
    <<"source_uuid", "name", "unit", "timestamp", "value", "value_string",
      "source", "channel_group_acq_name", "acq_source_name",
      "acq_source_path", "source_type", "bus_type">>

\* The column of a header name.
Col(name) == CHOOSE k \in 1..Len(Header) : Header[k] = name

\* Signals: samples of the signal's dtype, as many timestamps, increasing.
Signals ==
    UNION {{[dtype |-> d, samples |-> ss,
             timestamps |-> [k \in 1..Len(ss) |-> t0 + k]] :
               ss \in SeqUpTo(Samples(d), MaxSamples), t0 \in {0, 5}} :
           d \in DTypes}

InitCsv ==
    /\ signal \in Signals
    /\ rpc = "start"
    /\ numericSignals = <<>>
    /\ stringSignals = <<>>
    /\ indx = 0
    /\ numericValue = [t |-> "unbound", v |-> ""]
    /\ csvFile = <<>>

\* numericSignals, stringSignals = extractSignalsByType(signal)
CsvClassify ==
    /\ rpc = "start"
    /\ \E mem \in [1..Len(signal.timestamps) -> Uninitialised] :
          /\ numericSignals' = extractSignalsByType(signal, mem)[1]
          /\ stringSignals' = extractSignalsByType(signal, mem)[2]
    /\ rpc' = "open"
    /\ UNCHANGED <<progVars, srcVars, signal, indx, numericValue, csvFile>>

\* gzip.open(..., 'wt') and the header row.
CsvHeader ==
    /\ rpc = "open"
    /\ csvFile' = <<Header>>
    /\ indx' = 0
    /\ rpc' = "rows"
    /\ UNCHANGED <<progVars, srcVars, signal, numericSignals, stringSignals,
                   numericValue>>

\* One turn of `for indx in range(0, len(signal.timestamps))`: numericValue
\* is computed, and the row is written from numericSignals and stringSignals.
CsvRow ==
    /\ rpc = "rows"
    /\ indx < Len(signal.timestamps)
    /\ numericValue' = IF Float(signal.samples[indx + 1]) = <<>>
                       THEN [t |-> "tuple", v |-> "('',)"]
                       ELSE Float(signal.samples[indx + 1])[1]
    /\ csvFile' = Append(csvFile,
          <<"uuid#1", "Speed", "km/h", signal.timestamps[indx + 1],
            numericSignals[indx + 1], stringSignals[indx + 1], "ECU1",
            "FrameA", "ECU1", "CAN1", "ECU", "CAN">>)
    /\ indx' = indx + 1
    /\ UNCHANGED <<progVars, srcVars, signal, rpc, numericSignals,
                   stringSignals>>

\* The loop is over, the file is closed.
CsvClose ==
    /\ rpc = "rows"
    /\ indx = Len(signal.timestamps)
    /\ rpc' = "closed"
    /\ UNCHANGED <<progVars, srcVars, signal, numericSignals, stringSignals,
                   indx, numericValue, csvFile>>

InitCsvSpec == IdleProg /\ IdleSrc /\ InitCsv

NextCsv == CsvClassify \/ CsvHeader \/ CsvRow \/ CsvClose

SpecCsv == InitCsvSpec /\ [][NextCsv]_vars

RecordDTypes == {"record"}
NumericDTypes == {"float64", "int64"}

\* The data row written for sample k.
RowOf(k) == csvFile[k + 1]

\* C6: in row mode, the value written for a sample that does not convert to
\* a float is an empty placeholder, no number, and the rows after it are
\* written all the same.
C6_UnconvertibleValueIsPlaceholder ==
    /\ \A k \in 1..(Len(csvFile) - 1) :
          Float(signal.samples[k]) = <<>>
          => /\ RowOf(k)[Col("value")].t # "float64"
             /\ RowOf(k)[Col("value")].v = ""
    /\ rpc = "closed" => Len(csvFile) = Len(signal.timestamps) + 1

\* C8: extractSignalsByType returns two columns of the length of the
\* timestamps: zeros and the renderings for a record signal, the samples as
\* floats and empty strings for a numeric signal, zeros and the samples'
\* string form for any other signal.
C8_ClassifierColumns ==
    rpc # "start" =>
       LET n == Len(signal.timestamps)
       IN  /\ Len(numericSignals) = n
           /\ Len(stringSignals) = n
           /\ \A k \in 1..n :
                 IF signal.dtype \in RecordDTypes
                 THEN /\ numericSignals[k] = Zero
                      /\ stringSignals[k] = PPrint(signal.samples[k])
                 ELSE IF signal.dtype \in NumericDTypes
                 THEN /\ numericSignals[k] = AsDouble(signal.samples[k])
                      /\ stringSignals[k] = EmptyStr
                 ELSE /\ numericSignals[k] = Zero
                      /\ stringSignals[k] = AsStr(signal.samples[k])

\* C9: in row mode a signal's file is the header row and then one row per
\* timestamp index, in the signal's order, row k with timestamps[k] and the
\* value and value_string of sample k; for a numeric signal of n samples,
\* n rows with value = the samples and value_string = "".
C9_CsvRowsInOrder ==
    rpc = "closed" =>
       /\ csvFile[1] = Header
       /\ Len(csvFile) = Len(signal.timestamps) + 1
       /\ \A k \in 1..Len(signal.timestamps) :
             /\ RowOf(k)[Col("timestamp")] = signal.timestamps[k]
             /\ RowOf(k)[Col("value")] = numericSignals[k]
             /\ RowOf(k)[Col("value_string")] = stringSignals[k]
             /\ signal.dtype \in NumericDTypes
                => /\ RowOf(k)[Col("value")] = AsDouble(signal.samples[k])
                   /\ RowOf(k)[Col("value_string")] = EmptyStr

=============================================================================
